---- MODULE Spec2Model ----
(***************************************************************************)
(* A model of the range-aware streaming route of TG-FileStreamBot.         *)
(*                                                                         *)
(* The repository holds three drafts of the same handler, getStreamRoute:  *)
(*   "aligned"  src/internal/routes/stream.go  (floors the start of a      *)
(*              range to a chunk boundary, guards the body with            *)
(*              contentLengthWriter, answers If-None-Match)                *)
(*   "preload"  src/unnamed/part_000           (truncates a range to       *)
(*              preloadSize, copies with io.CopyN)                         *)
(*   "pooled"   src/unnamed/part_001           (borrows the worker from    *)
(*              clientPool, reads through bufferedTelegramReader)          *)
(* One behaviour of the model runs one draft (the variable variant).       *)
(* The capacity of clientPool, 10 in the source, is a parameter of a       *)
(* behaviour of the pooled draft (the variable capacity).                  *)
(*                                                                         *)
(* Bytes: the byte of a file at offset i is modelled by the number i, so   *)
(* a body is a sequence of offsets and any loss, repetition or reordering  *)
(* is visible.  The text of an http.Error reply is the element ErrText.    *)
(*                                                                         *)
(* Sizes are scaled: the byte constants of the source (10 MiB, 32 KiB ...) *)
(* are replaced by small numbers that keep their order, so that a file     *)
(* spans several chunks and a chunk spans several copy buffers.  The       *)
(* window arithmetic is also exercised at the source's own values in       *)
(* SpecExample.                                                            *)
(***************************************************************************)
EXTENDS Integers, Sequences, FiniteSets, TLC

\* ---- bounds of the model ----
NumReq == 2         \* requests the model follows
MaxPoolCap == 2     \* largest capacity of clientPool (10 in part_001)
MaxSize == 6        \* largest file size
MaxOff == 6         \* largest number written in a Range header
MaxWorkers == 3     \* largest number of bots GetNextWorker cycles through
Extra == 1          \* bytes a misbehaving upstream adds to (or drops from) a reply

\* ---- program constants (scaled) ----
chunkSize == 3      \* stream.go: 10 * 1024 * 1024
bufferSize == 2     \* stream.go: 32 * 1024, the io.CopyBuffer buffer
preloadSize == 4    \* part_000: 5 * 1024 * 1024
readBufferSize == 2 \* part_000: 512 * 1024
photoLimit == 2     \* part_000 / part_001: Limit 1024 * 1024 of the photo fetch
poolBufferSize == 2 \* part_001: bufferSize 256 * 1024
videoBufferSize == 3    \* part_001: bufferSize 1 * 1024 * 1024 for video

\* ---- the source's own values, used by SpecExample ----
chunkSizeBytes == 10 * 1024 * 1024
preloadSizeBytes == 5 * 1024 * 1024

Req == 1..NumReq
ErrText == -1       \* the message body written by http.Error
Absent == -1        \* a missing number in a range spec ("-5", "3-")
NoTag == <<-1, -1>> \* no If-None-Match header
FileId == 42

Min(a, b) == IF a < b THEN a ELSE b

VARIABLES
  variant,      \* which draft of the handler runs
  numWorkers,   \* bots known to bot.GetNextWorker
  workerIndex,  \* bot.Workers.index
  capacity,     \* cap(clientPool)
  loaded,       \* LoadHome has run
  pool,         \* clientPool: the buffered channel, as a sequence
  pc,           \* per request: position in getStreamRoute
  req,          \* per request: what the handler has read of the request
  file,         \* per request: the FileDescriptor FileFromMessage returned
  worker,       \* per request: the worker the request holds (0: none)
  win,          \* per request: start, end, contentLength
  status,       \* per request: response status
  hdrs,         \* per request: response headers
  body,         \* per request: bytes written to the client
  fetches,      \* per request: the UploadGetFile calls issued, with their replies
  rd,           \* per request: the reader's cursor and buffer
  remaining,    \* per request: contentLengthWriter.remaining
  copyErr,      \* per request: how the copy loop ended
  logs,         \* per request: log.Error / log.Warn calls
  client        \* the player that follows one file with range requests

vars == <<variant, numWorkers, capacity, workerIndex, loaded, pool, pc, req, file, worker,
          win, status, hdrs, body, fetches, rd, remaining, copyErr, logs, client>>

HdrNames == {"ETag", "Accept-Ranges", "Content-Range", "Content-Length"}
NoHdr == <<>>
NoHeaders == [h \in HdrNames |-> NoHdr]

NoReq == [method |-> "?", hash |-> "?", token |-> <<>>, inm |-> NoTag,
          range |-> [kind |-> "unread", rs |-> <<>>]]
NoFile == [id |-> 0, name |-> "?", size |-> -1, payload |-> 0, mime |-> "?"]
NoWin == [start |-> 0, end |-> -1, len |-> 0]
NoReader == [cur |-> 0, buf |-> <<>>, stop |-> 0, chunk |-> 0]
\* No player: the requests are unrelated.  s0: the offset it started at,
\* next: the start of its next range, last: the end of the window it was
\* served last, covered: the offsets served so far, n: its responses.
NoClient == [s0 |-> 0 - 1, next |-> 0 - 1, last |-> 0 - 1, covered |-> {}, n |-> 0]

\* The bytes of the object at offsets off .. off+n-1.
FileBytes(off, n) == [i \in 1..n |-> off + i - 1]

\* ---------------------------------------------------------------------
\* Pure functions
\* ---------------------------------------------------------------------

\* range_parser.Parse(size, header) of github.com/quantumsheep/range-parser,
\* the library the three drafts call.  A header is modelled as
\* [kind, rs]: kind "none" (no header), "bad" (no "=" in it) or "ranges",
\* with rs the comma-separated specs [s, e], Absent for a missing number.
\* The library's behaviour: "-n" is the last n bytes, "n-" runs to size-1, an end beyond
\* size-1 is limited to size-1, and a spec with start > end or start < 0 is
\* dropped.  No spec left is an error.
normRange(size, sp) ==
  LET st  == IF sp.s = Absent THEN size - sp.e ELSE sp.s
      en0 == IF sp.s = Absent \/ sp.e = Absent THEN size - 1 ELSE sp.e
      en  == IF en0 > size - 1 THEN size - 1 ELSE en0
  IN  [Start |-> st, End |-> en,
       ok |-> ~(sp.s = Absent /\ sp.e = Absent) /\ st <= en /\ st >= 0]

IsOkRange(x) == x.ok

rangeParse(size, header) ==
  IF header.kind # "ranges" THEN [err |-> TRUE, ranges |-> <<>>]
  ELSE LET all  == [i \in 1..Len(header.rs) |-> normRange(size, header.rs[i])]
           kept == SelectSeq(all, IsOkRange)
       IN  [err |-> kept = <<>>, ranges |-> kept]

\* Faulty variant of alignedRange: the cut end is chunkSize - 1, not counted
\* from start.
alignedRangeFromZero(fileSize, r, cs) ==
  LET start == (r.Start \div cs) * cs
      end1  == IF r.End - start > cs THEN cs - 1 ELSE r.End
      end   == IF end1 >= fileSize THEN fileSize - 1 ELSE end1
  IN  [start |-> start, end |-> end, len |-> end - start + 1]

\* Faulty variant of alignedRange: start is rounded up to a multiple of cs.
alignedRangeCeil(fileSize, r, cs) ==
  LET start == ((r.Start + cs - 1) \div cs) * cs
      end1  == IF r.End - start > cs THEN start + cs - 1 ELSE r.End
      end   == IF end1 >= fileSize THEN fileSize - 1 ELSE end1
  IN  [start |-> start, end |-> end, len |-> end - start + 1]

\* stream.go 140-150: the served window of a range request, start floored to
\* a multiple of the chunk size cs.
alignedRange(fileSize, r, cs) ==
  LET start == (r.Start \div cs) * cs
      end1  == IF r.End - start > cs THEN start + cs - 1 ELSE r.End
      end   == IF end1 >= fileSize THEN fileSize - 1 ELSE end1
  IN  [start |-> start, end |-> end, len |-> end - start + 1]

\* part_000 102-108 and 114: the served window of a range request, truncated
\* to the preload size ps.
preloadRange(fileSize, r, ps) ==
  LET start == r.Start
      end   == IF r.End - start > ps THEN start + ps - 1 ELSE r.End
  IN  [start |-> start, end |-> end, len |-> end - start + 1]

\* Faulty variant of pooledRange: the length is end - start, one short.
pooledRangeShortLen(fileSize, r) ==
  LET start == r.Start
      end   == IF r.End >= fileSize THEN fileSize - 1 ELSE r.End
  IN  [start |-> start, end |-> end, len |-> end - start]

\* part_001 199-203 and 208.
pooledRange(fileSize, r) ==
  LET start == r.Start
      end   == IF r.End >= fileSize THEN fileSize - 1 ELSE r.End
  IN  [start |-> start, end |-> end, len |-> end - start + 1]

\* Faulty variant of fullWindow: end = file.FileSize, one past the last byte.
fullWindowOnePast(fileSize) ==
  [start |-> 0, end |-> fileSize, len |-> fileSize - 0 + 1]

\* stream.go 131-132, 156 (the same in the other drafts): no Range header.
fullWindow(fileSize) ==
  [start |-> 0, end |-> fileSize - 1, len |-> (fileSize - 1) - 0 + 1]

\* stream.go 90: fmt.Sprintf(`"%x-%x"`, file.ID, file.FileSize).  The text
\* is determined by, and determines, the pair (both numbers are >= 0).
eTagOf(f) == <<f.id, f.size>>

\* utils.PackFile / utils.CheckHash: the token of a descriptor and its check.
PackFile(f) == <<f.name, f.size, f.mime, f.id>>
CheckHash(authHash, expectedHash) == authHash = expectedHash

\* Faulty variant of contentLengthWriterWrite: p is not cut to the remaining bytes.
contentLengthWriterWriteUncut(rem, p, cl) ==
  IF rem <= 0
  THEN [n |-> 0, err |-> "errContentLengthExceeded", out |-> <<>>, remaining |-> rem]
  ELSE LET n == IF cl = "ok" THEN Len(p) ELSE 0
       IN  [n |-> n, err |-> IF cl = "ok" THEN "nil" ELSE "client",
            out |-> SubSeq(p, 1, n), remaining |-> rem - n]

\* stream.go 33-45: contentLengthWriter.Write(p).  cl is what the wrapped
\* ResponseWriter does with the bytes handed to it: "ok" takes them all,
\* "fail" takes none and returns an error (the client is gone).
contentLengthWriterWrite(rem, p, cl) ==
  IF rem <= 0
  THEN [n |-> 0, err |-> "errContentLengthExceeded", out |-> <<>>, remaining |-> rem]
  ELSE LET q == IF Len(p) > rem THEN SubSeq(p, 1, rem) ELSE p
           n == IF cl = "ok" THEN Len(q) ELSE 0
       IN  [n |-> n, err |-> IF cl = "ok" THEN "nil" ELSE "client",
            out |-> SubSeq(q, 1, n), remaining |-> rem - n]

\* What an UploadGetFile call asking for lim bytes may return: -1 is an
\* error (or a reply of an unexpected type), otherwise the number of bytes.
\* An upstream that keeps to its contract returns lim.
Replies(lim) == {-1, lim, lim + Extra} \cup (IF lim - Extra >= 0 THEN {lim - Extra} ELSE {})

\* utils.NewTelegramReader(ctx, client, location, start, end, chunkSize):
\* the ChunkedRemoteReader of the design, cursor at start, empty buffer.
newTelegramReader(start, end, chunk) ==
  [cur |-> start, buf |-> <<>>, stop |-> end + 1, chunk |-> chunk]

\* part_001 53-64: newBufferedTelegramReader(ctx, worker, location, offset,
\* length, chunkSize); stop is the field fileSize = offset + length.
newBufferedTelegramReader(offset, length, chunk) ==
  [cur |-> offset, buf |-> <<>>, stop |-> offset + length, chunk |-> chunk]

readerNeedsFetch(R) == R.buf = <<>> /\ R.cur < R.stop
readerLimit(R) == Min(R.chunk, R.stop - R.cur)
\* the cursor advances by the bytes actually returned
readerRefill(R, got) == [R EXCEPT !.buf = FileBytes(R.cur, got), !.cur = R.cur + got]
\* serve at most n bytes from the buffer
readerTake(R, n) == SubSeq(R.buf, 1, Min(n, Len(R.buf)))
readerAfterTake(R, n) == [R EXCEPT !.buf = SubSeq(R.buf, Min(n, Len(R.buf)) + 1, Len(R.buf))]


\* ---------------------------------------------------------------------
\* Inputs
\* ---------------------------------------------------------------------
Methods == {"GET", "HEAD"}
Mimes == {"video/mp4", "text/plain"}
RangeNums == (0..MaxOff) \cup {Absent}
RangeSpecs == [s : RangeNums, e : RangeNums]
MultiSpecs == {[s |-> 0, e |-> 0], [s |-> 1, e |-> 2], [s |-> MaxOff + 1, e |-> Absent]}
RangeHeaders ==
  {[kind |-> "none", rs |-> <<>>], [kind |-> "bad", rs |-> <<>>]}
  \cup {[kind |-> "ranges", rs |-> <<sp>>] : sp \in RangeSpecs}
  \cup {[kind |-> "ranges", rs |-> <<a, b>>] : a \in MultiSpecs, b \in MultiSpecs}

\* The descriptors FileFromMessage may return: a file of size 1..MaxSize, or
\* a photo (size 0) whose payload has 0..chunkSize+1 bytes.
Files(mimes) ==
  {[id |-> FileId, name |-> "a", size |-> n, payload |-> n, mime |-> m] :
      n \in 1..MaxSize, m \in mimes}
  \cup {[id |-> FileId, name |-> "a", size |-> 0, payload |-> n, mime |-> "image/jpeg"] :
      n \in 0..(chunkSize + 1)}

\* The tokens a client may present for a descriptor: the right one, and
\* tokens minted for a descriptor that differs in one field.
Tokens(f) == {PackFile(f), PackFile([f EXCEPT !.size = @ + 1]), PackFile([f EXCEPT !.id = @ + 1])}

\* ---------------------------------------------------------------------
\* Init
\* ---------------------------------------------------------------------
InitCommon ==
  /\ numWorkers \in 1..MaxWorkers
  /\ workerIndex = 0
  /\ loaded = FALSE
  /\ pool = <<>>
  /\ pc = [r \in Req |-> "start"]
  /\ req = [r \in Req |-> NoReq]
  /\ file = [r \in Req |-> NoFile]
  /\ worker = [r \in Req |-> 0]
  /\ win = [r \in Req |-> NoWin]
  /\ status = [r \in Req |-> 200]      \* gin's default status
  /\ hdrs = [r \in Req |-> NoHeaders]
  /\ body = [r \in Req |-> <<>>]
  /\ fetches = [r \in Req |-> <<>>]
  /\ rd = [r \in Req |-> NoReader]
  /\ remaining = [r \in Req |-> 0]
  /\ copyErr = [r \in Req |-> "?"]
  /\ logs = [r \in Req |-> {}]
  /\ client = NoClient

Init == variant \in {"aligned", "preload"} /\ capacity = 0 /\ InitCommon

\* ---------------------------------------------------------------------
\* Fragments shared by the actions
\* ---------------------------------------------------------------------

\* bot.GetNextWorker: the next bot, round robin (index of the bot, from 1).
nextWorkerIndex(i, n) == (i + 1) % n

\* Faulty variant of releaseWorker: the worker is not sent back.
releaseWorkerLost(p, w) == p

\* part_001 136: the deferred  clientPool <- worker.
releaseWorker(p, w) == Append(p, w)

\* http.Error(w, msg, code): gin keeps the status until the first write, so
\* code replaces a status set before; the message is the body.
HttpError(r, code) ==
  /\ status' = [status EXCEPT ![r] = code]
  /\ body' = [body EXCEPT ![r] = Append(@, ErrText)]

\* The handler returns.  In the pooled draft the deferred release runs.
Return(r) ==
  /\ pc' = [pc EXCEPT ![r] = "done"]
  /\ IF variant = "pooled"
     THEN /\ pool' = releaseWorker(pool, worker[r])
          /\ worker' = [worker EXCEPT ![r] = 0]
     ELSE UNCHANGED <<pool, worker>>

\* What no step of a handler changes: the deployment, and the record of the
\* player, which only the player's own step updates.
Config == <<variant, numWorkers, capacity, client>>

\* ---------------------------------------------------------------------
\* Actions
\* ---------------------------------------------------------------------

\* LoadHome: registers the route; the pooled draft first fills clientPool
\* with cap(clientPool) results of bot.GetNextWorker.
LoadHome ==
  /\ ~loaded
  /\ loaded' = TRUE
  /\ IF variant = "pooled"
     THEN /\ pool' = [i \in 1..capacity |-> ((workerIndex + i) % numWorkers) + 1]
          /\ workerIndex' = (workerIndex + capacity) % numWorkers
     ELSE UNCHANGED <<pool, workerIndex>>
  /\ UNCHANGED <<Config, pc, req, file, worker, win, status, hdrs, body, fetches,
                 rd, remaining, copyErr, logs>>

\* getStreamRoute, up to the worker: the message id and the hash parameter.
ParseParams(r) ==
  /\ loaded
  /\ pc[r] = "start"
  /\ \E idOK \in BOOLEAN, h \in {"", "set"} :
       /\ req' = [req EXCEPT ![r].hash = IF idOK THEN h ELSE "?"]
       /\ IF ~idOK \/ h = ""
          THEN HttpError(r, 400) /\ pc' = [pc EXCEPT ![r] = "done"]
          ELSE pc' = [pc EXCEPT ![r] = "worker"] /\ UNCHANGED <<status, body>>
  /\ UNCHANGED <<Config, workerIndex, loaded, pool, file, worker, win, hdrs, fetches,
                 rd, remaining, copyErr, logs>>

\* worker := bot.GetNextWorker()
GetWorker(r) ==
  /\ variant \in {"aligned", "preload"}
  /\ pc[r] = "worker"
  /\ workerIndex' = nextWorkerIndex(workerIndex, numWorkers)
  /\ worker' = [worker EXCEPT ![r] = workerIndex' + 1]
  /\ pc' = [pc EXCEPT ![r] = "lookup"]
  /\ UNCHANGED <<Config, loaded, pool, req, file, win, status, hdrs, body, fetches,
                 rd, remaining, copyErr, logs>>

\* file, err := utils.FileFromMessage(...)
LookupFile(r, files) ==
  /\ pc[r] = "lookup"
  /\ \/ /\ HttpError(r, 400)
        /\ Return(r)
        /\ UNCHANGED file
     \/ /\ \E f \in files : file' = [file EXCEPT ![r] = f]
        /\ pc' = [pc EXCEPT ![r] = "hash"]
        /\ UNCHANGED <<status, body, pool, worker>>
  /\ UNCHANGED <<Config, workerIndex, loaded, req, win, hdrs, fetches,
                 rd, remaining, copyErr, logs>>

\* Faulty variant of hashRejected: no hash is turned away.
hashRejectedNever(authHash, expectedHash) == FALSE

\* stream.go 84, part_000 72, part_001 152: if !utils.CheckHash(authHash,
\* expectedHash) { http.Error(w, "invalid hash", http.StatusBadRequest) }.
hashRejected(authHash, expectedHash) == ~CheckHash(authHash, expectedHash)

\* expectedHash := utils.PackFile(...); utils.CheckHash(authHash, expectedHash)
CheckHashStep(r) ==
  /\ pc[r] = "hash"
  /\ \E t \in Tokens(file[r]) :
       /\ req' = [req EXCEPT ![r].token = t]
       /\ IF hashRejected(t, PackFile(file[r]))
          THEN HttpError(r, 400) /\ Return(r)
          ELSE /\ pc' = [pc EXCEPT ![r] =
                          IF variant = "aligned" THEN "etag"
                          ELSE IF file[r].size = 0 THEN "photo" ELSE "range"]
               /\ UNCHANGED <<status, body, pool, worker>>
  /\ UNCHANGED <<Config, workerIndex, loaded, file, win, hdrs, fetches,
                 rd, remaining, copyErr, logs>>

\* Faulty variant of ifNoneMatch: the header is compared with the tag of another
\* size, so the current tag never matches.
ifNoneMatchStale(match, eTag) == match = <<eTag[1], eTag[2] + 1>>

\* stream.go 97: match == eTag
ifNoneMatch(match, eTag) == match = eTag

\* stream.go 89-100: the ETag header and the If-None-Match check.
ETagStep(r) ==
  /\ variant = "aligned"
  /\ pc[r] = "etag"
  /\ hdrs' = [hdrs EXCEPT ![r]["ETag"] = eTagOf(file[r])]
  /\ \E m \in {NoTag, eTagOf(file[r]), eTagOf([file[r] EXCEPT !.size = @ + 1])} :
       /\ req' = [req EXCEPT ![r].inm = m]
       /\ IF ifNoneMatch(m, eTagOf(file[r]))
          THEN /\ status' = [status EXCEPT ![r] = 304]
               /\ pc' = [pc EXCEPT ![r] = "done"]
          ELSE /\ pc' = [pc EXCEPT ![r] = IF file[r].size = 0 THEN "photo" ELSE "range"]
               /\ UNCHANGED status
  /\ UNCHANGED <<Config, workerIndex, loaded, pool, file, worker, win, body, fetches,
                 rd, remaining, copyErr, logs>>


\* Faulty variant of headSkipsBody: the method is not looked at.
headSkipsBodyNever(method) == FALSE

\* stream.go 118 and 171 (r.Method != "HEAD"), part_000 120 and 158,
\* part_001 172 and 236.
headSkipsBody(method) == method = "HEAD"

\* The Limit of the single fetch of the photo path.
photoFetchLimit == IF variant = "aligned" THEN chunkSize ELSE photoLimit

\* stream.go 102-124, part_000 handlePhotoMessage, part_001 158-179: a
\* descriptor of size 0 is fetched in one call and returned whole.
\* got: -1 the call fails, -2 the reply is no *tg.UploadFile, otherwise the
\* upstream returns what it has, up to the limit.
PhotoFetch(r) ==
  /\ pc[r] = "photo"
  /\ \E got \in {-1, -2, Min(file[r].payload, photoFetchLimit)} :
       /\ fetches' = [fetches EXCEPT ![r] =
             Append(@, [kind |-> "photo", off |-> 0, lim |-> photoFetchLimit, got |-> got])]
       /\ IF got < 0
          THEN HttpError(r, 500) /\ UNCHANGED req
          ELSE \E m \in Methods :
                 /\ req' = [req EXCEPT ![r].method = m]
                 /\ IF ~headSkipsBody(m)
                    THEN /\ status' = [status EXCEPT ![r] = 200]
                         /\ body' = [body EXCEPT ![r] = @ \o FileBytes(0, got)]
                    ELSE UNCHANGED <<status, body>>
  /\ Return(r)
  /\ UNCHANGED <<Config, workerIndex, loaded, file, win, hdrs, rd, remaining, copyErr, logs>>

\* The served window of a range request, per draft, for a chunk size cs and
\* a preload size ps.
servedRange(fileSize, r, cs, ps) ==
  CASE variant = "aligned" -> alignedRange(fileSize, r, cs)
    [] variant = "preload" -> preloadRange(fileSize, r, ps)
    [] OTHER -> pooledRange(fileSize, r)

\* part_001 195: len(ranges) > 1; the other drafts have no such test.
multipartRejected(ranges) == variant = "pooled" /\ Len(ranges) > 1

\* Content-Range: fmt.Sprintf("bytes %d-%d/%d", start, end, file.FileSize)
contentRange(w, fileSize) == <<w.start, w.end, fileSize>>

\* stream.go 126-169, part_000 86-117, part_001 181-226: from the Range
\* header h of a request for descriptor f to the window, the status and the
\* headers.  reject is the status of the http.Error that ends the request, or
\* 0; hd0 are the headers set so far.
negotiated(f, h, hd0, cs, ps) ==
  LET size   == f.size
      parsed == rangeParse(size, h)
      reject == IF h.kind = "none" THEN 0
                ELSE IF parsed.err THEN 400
                ELSE IF multipartRejected(parsed.ranges) THEN 416
                ELSE 0
      w      == IF h.kind = "none" THEN fullWindow(size)
                ELSE servedRange(size, parsed.ranges[1], cs, ps)
      early  == IF variant = "aligned"
                THEN [hd0 EXCEPT !["Accept-Ranges"] = <<"bytes">>]
                ELSE hd0
      withCR == IF h.kind = "none" THEN early
                ELSE [early EXCEPT !["Content-Range"] = contentRange(w, size)]
      all    == [withCR EXCEPT !["Accept-Ranges"] = <<"bytes">>,
                               !["Content-Length"] = <<w.len>>,
                               !["ETag"] = IF variant = "pooled" THEN PackFile(f) ELSE @]
  IN  IF reject # 0
      THEN [reject |-> reject, w |-> NoWin, status |-> reject, hdrs |-> early]
      ELSE [reject |-> 0, w |-> w, status |-> IF h.kind = "none" THEN 200 ELSE 206,
            hdrs |-> all]

\* The reader the draft constructs over the window, and where the body is
\* copied: stream.go 172, part_000 129, part_001 240-250.
poolChunk(mime) == IF mime = "video/mp4" THEN videoBufferSize ELSE poolBufferSize
readerFor(w, mime, cs) ==
  CASE variant = "aligned" -> newTelegramReader(w.start, w.end, cs)
    [] variant = "preload" -> newTelegramReader(w.start, w.end, w.len)
    [] OTHER -> newBufferedTelegramReader(w.start, w.len, poolChunk(mime))
bodyPc(mime) ==
  CASE variant = "aligned" -> "copy"
    [] variant = "preload" -> "copyn"
    [] OTHER -> IF mime = "video/mp4" THEN "video" ELSE "poolcopy"

\* getStreamRoute from the Range header to the start of the body: the
\* window, the status and the headers; an http.Error or HEAD ends here.
Negotiate(r, headers) ==
  /\ pc[r] = "range"
  /\ \E h \in headers, m \in Methods :
       LET res == negotiated(file[r], h, hdrs[r], chunkSize, preloadSize) IN
       /\ req' = [req EXCEPT ![r].range = h,
                             ![r].method = IF res.reject # 0 THEN @ ELSE m]
       /\ hdrs' = [hdrs EXCEPT ![r] = res.hdrs]
       /\ IF res.reject # 0
          THEN /\ HttpError(r, res.reject)
               /\ Return(r)
               /\ UNCHANGED <<win, rd, remaining>>
          ELSE /\ win' = [win EXCEPT ![r] = res.w]
               /\ status' = [status EXCEPT ![r] = res.status]
               /\ UNCHANGED body
               /\ IF headSkipsBody(m)
                  THEN Return(r) /\ UNCHANGED <<rd, remaining>>
                  ELSE /\ rd' = [rd EXCEPT ![r] = readerFor(res.w, file[r].mime, chunkSize)]
                       /\ remaining' = [remaining EXCEPT ![r] = res.w.len]
                       /\ pc' = [pc EXCEPT ![r] = bodyPc(file[r].mime)]
                       /\ UNCHANGED <<pool, worker>>
  /\ UNCHANGED <<Config, workerIndex, loaded, file, fetches, copyErr, logs>>

ChunkFetch(R, got) == [kind |-> "chunk", off |-> R.cur, lim |-> readerLimit(R), got |-> got]

\* The second half of an io.CopyBuffer iteration of stream.go 185: the
\* reader, in state R1, serves at most bufferSize bytes, contentLengthWriter
\* writes them, and the loop stops on a write error or a short write.
CopyWrite(r, R1) ==
  LET p == readerTake(R1, bufferSize) IN
  \E cl \in {"ok", "fail"} :
    LET res == contentLengthWriterWrite(remaining[r], p, cl) IN
    /\ rd' = [rd EXCEPT ![r] = readerAfterTake(R1, bufferSize)]
    /\ body' = [body EXCEPT ![r] = @ \o res.out]
    /\ remaining' = [remaining EXCEPT ![r] = res.remaining]
    /\ IF res.err # "nil"
       THEN copyErr' = [copyErr EXCEPT ![r] = res.err] /\ pc' = [pc EXCEPT ![r] = "copyend"]
       ELSE IF res.n # Len(p)
       THEN copyErr' = [copyErr EXCEPT ![r] = "ErrShortWrite"] /\ pc' = [pc EXCEPT ![r] = "copyend"]
       ELSE UNCHANGED <<copyErr, pc>>

\* One iteration of io.CopyBuffer(cw, lr, buf), stream.go 185: lr.Read, which
\* fetches a chunk when its buffer is empty, then cw.Write.
CopyIter(r) ==
  /\ variant = "aligned"
  /\ pc[r] = "copy"
  /\ LET R == rd[r] IN
     \/ /\ readerNeedsFetch(R)
        /\ \E got \in Replies(readerLimit(R)) :
             /\ fetches' = [fetches EXCEPT ![r] = Append(@, ChunkFetch(R, got))]
             /\ IF got <= 0
                THEN /\ copyErr' = [copyErr EXCEPT ![r] = "upstream"]
                     /\ pc' = [pc EXCEPT ![r] = "copyend"]
                     /\ UNCHANGED <<rd, body, remaining>>
                ELSE CopyWrite(r, readerRefill(R, got))
     \/ /\ R.buf # <<>>
        /\ CopyWrite(r, R)
        /\ UNCHANGED fetches
     \/ /\ R.buf = <<>> /\ R.cur >= R.stop     \* io.EOF
        /\ copyErr' = [copyErr EXCEPT ![r] = "nil"]
        /\ pc' = [pc EXCEPT ![r] = "copyend"]
        /\ UNCHANGED <<rd, body, remaining, fetches>>
  /\ UNCHANGED <<Config, workerIndex, loaded, pool, req, file, worker, win, status,
                 hdrs, logs>>

\* stream.go 185-196: what the handler logs once the copy has ended.
copyLogs(err, rem) ==
  (IF err # "nil" /\ err # "errContentLengthExceeded" THEN {"error"} ELSE {})
  \cup (IF rem > 0 THEN {"warn"} ELSE {})

CopyEnd(r) ==
  /\ variant = "aligned"
  /\ pc[r] = "copyend"
  /\ logs' = [logs EXCEPT ![r] = @ \cup copyLogs(copyErr[r], remaining[r])]
  /\ Return(r)
  /\ UNCHANGED <<Config, workerIndex, loaded, req, file, win, status, hdrs, body,
                 fetches, rd, remaining, copyErr>>

\* One iteration of io.CopyN(bufferedWriter, bufferedReader, contentLength),
\* part_000 138: at most readBufferSize bytes, and no more than are left of
\* contentLength, go from the reader to the client.  remaining is the N of
\* the io.LimitedReader.  The bufio.Writer delays the bytes until its buffer
\* is full or the deferred Flush runs; it does not change them.
CopyNWrite(r, R1) ==
  LET n == Min(readBufferSize, remaining[r])
      p == readerTake(R1, n)
  IN
  \E cl \in {"ok", "fail"} :
    /\ rd' = [rd EXCEPT ![r] = readerAfterTake(R1, n)]
    /\ IF cl = "ok"
       THEN /\ body' = [body EXCEPT ![r] = @ \o p]
            /\ remaining' = [remaining EXCEPT ![r] = @ - Len(p)]
            /\ UNCHANGED <<copyErr, pc>>
       ELSE /\ copyErr' = [copyErr EXCEPT ![r] = "client"]
            /\ pc' = [pc EXCEPT ![r] = "copyend"]
            /\ UNCHANGED <<body, remaining>>

CopyNIter(r) ==
  /\ variant = "preload"
  /\ pc[r] = "copyn"
  /\ LET R == rd[r] IN
     \/ /\ remaining[r] = 0                      \* all of contentLength copied
        /\ copyErr' = [copyErr EXCEPT ![r] = "nil"]
        /\ pc' = [pc EXCEPT ![r] = "copyend"]
        /\ UNCHANGED <<rd, body, remaining, fetches>>
     \/ /\ remaining[r] > 0
        /\ readerNeedsFetch(R)
        /\ \E got \in Replies(readerLimit(R)) :
             /\ fetches' = [fetches EXCEPT ![r] = Append(@, ChunkFetch(R, got))]
             /\ IF got <= 0
                THEN /\ copyErr' = [copyErr EXCEPT ![r] = "upstream"]
                     /\ pc' = [pc EXCEPT ![r] = "copyend"]
                     /\ UNCHANGED <<rd, body, remaining>>
                ELSE CopyNWrite(r, readerRefill(R, got))
     \/ /\ remaining[r] > 0
        /\ R.buf # <<>>
        /\ CopyNWrite(r, R)
        /\ UNCHANGED fetches
     \/ /\ remaining[r] > 0
        /\ R.buf = <<>> /\ R.cur >= R.stop       \* the reader ends early
        /\ copyErr' = [copyErr EXCEPT ![r] = "EOF"]
        /\ pc' = [pc EXCEPT ![r] = "copyend"]
        /\ UNCHANGED <<rd, body, remaining, fetches>>
  /\ UNCHANGED <<Config, workerIndex, loaded, pool, req, file, worker, win, status,
                 hdrs, logs>>

\* part_000 138-141: log.Error on any error of io.CopyN, then the deferred
\* Flush and the return.
CopyNEnd(r) ==
  /\ variant = "preload"
  /\ pc[r] = "copyend"
  /\ logs' = [logs EXCEPT ![r] = @ \cup (IF copyErr[r] # "nil" THEN {"error"} ELSE {})]
  /\ Return(r)
  /\ UNCHANGED <<Config, workerIndex, loaded, req, file, win, status, hdrs, body,
                 fetches, rd, remaining, copyErr>>

\* ---------------------------------------------------------------------
\* The drafts that take the worker from bot.GetNextWorker: one request.
\* ---------------------------------------------------------------------
SingleMimes == {"video/mp4"}

Next ==
  \/ LoadHome
  \/ ParseParams(1)
  \/ GetWorker(1)
  \/ LookupFile(1, Files(SingleMimes))
  \/ CheckHashStep(1)
  \/ ETagStep(1)
  \/ PhotoFetch(1)
  \/ Negotiate(1, RangeHeaders)
  \/ CopyIter(1)
  \/ CopyEnd(1)
  \/ CopyNIter(1)
  \/ CopyNEnd(1)

Spec == Init /\ [][Next]_vars


\* ---------------------------------------------------------------------
\* The pooled draft (part_001): requests share clientPool.
\* ---------------------------------------------------------------------

\* Faulty variant of poolAfterReceive: the worker is read but stays in the channel.
poolAfterReceiveKept(p) == p

\* part_001 135: worker := <-clientPool, which blocks while the channel is
\* empty.  poolAfterReceive is the channel once the head has been taken.
poolAfterReceive(p) == Tail(p)

PoolAcquire(r) ==
  /\ variant = "pooled"
  /\ pc[r] = "worker"
  /\ pool # <<>>
  /\ worker' = [worker EXCEPT ![r] = Head(pool)]
  /\ pool' = poolAfterReceive(pool)
  /\ pc' = [pc EXCEPT ![r] = "lookup"]
  /\ UNCHANGED <<Config, workerIndex, loaded, req, file, win, status, hdrs, body,
                 fetches, rd, remaining, copyErr, logs>>

\* Faulty variant of bufReaderEnd: the end of the chunk is not cut at the end
\* of the window.
bufReaderEndUnclamped(R) == R.cur + R.chunk

\* part_001 72-75: end := b.current + b.chunkSize; if end > b.fileSize
\* { end = b.fileSize }.
bufReaderEnd(R) == IF R.cur + R.chunk > R.stop THEN R.stop ELSE R.cur + R.chunk

\* part_001 77-81: the request made of the upstream, Offset: b.current,
\* Limit: int(end - b.current), with the number of bytes of its reply.
bufFetch(R, got) ==
  [kind |-> "chunk", off |-> R.cur, lim |-> bufReaderEnd(R) - R.cur, got |-> got]

\* part_001 66-100: bufferedTelegramReader.Read.  After a fetch the buffer
\* holds the bytes returned and current is set to the end of the chunk asked
\* for.
bufReaderRefill(R, got) ==
  [R EXCEPT !.buf = FileBytes(R.cur, got), !.cur = bufReaderEnd(R)]

\* part_001 82-89: the call returned an error, or a reply that is no
\* *tg.UploadFile: Read returns (0, err) and leaves the reader as it was.
bufReadFailure(R, got) ==
  [p |-> <<>>, err |-> "upstream", R |-> R, fetch |-> <<bufFetch(R, got)>>]

\* The result of one reader.Read(p) with len(p) = n in state R, the fetch (if
\* one is made) returning got: the bytes, the error, the reader afterwards and
\* the fetch made.  A fetch that returns nothing leaves the buffer empty, and
\* bytes.Buffer.Read then returns io.EOF.
bufReaderRead(R, n, got) ==
  IF R.buf = <<>> /\ R.cur >= R.stop
  THEN [p |-> <<>>, err |-> "EOF", R |-> R, fetch |-> <<>>]
  ELSE IF R.buf = <<>>
  THEN IF got < 0
       THEN bufReadFailure(R, got)
       ELSE LET R1 == bufReaderRefill(R, got) IN
            [p |-> readerTake(R1, n),
             err |-> IF got = 0 THEN "EOF" ELSE "nil",
             R |-> readerAfterTake(R1, n),
             fetch |-> <<bufFetch(R, got)>>]
  ELSE [p |-> readerTake(R, n), err |-> "nil", R |-> readerAfterTake(R, n), fetch |-> <<>>]

\* The replies a Read in state R may meet: none is drawn when no fetch is made.
\* upstream "plain": it answers with what was asked for, or fails; "any": it
\* may also return fewer or more bytes.
ReadReplies(R, upstream) ==
  IF R.buf # <<>> \/ R.cur >= R.stop THEN {0}
  ELSE IF upstream = "plain" THEN {-1, bufReaderEnd(R) - R.cur}
  ELSE Replies(bufReaderEnd(R) - R.cur)

\* part_001 254-266: one turn of the video loop: reader.Read, w.Write, Flush.
PoolVideoIter(r, upstream) ==
  /\ variant = "pooled"
  /\ pc[r] = "video"
  /\ \E got \in ReadReplies(rd[r], upstream), cl \in {"ok", "fail"} :
       LET res == bufReaderRead(rd[r], rd[r].chunk, got) IN
       /\ rd' = [rd EXCEPT ![r] = res.R]
       /\ fetches' = [fetches EXCEPT ![r] = @ \o res.fetch]
       /\ IF (res.err # "nil" /\ res.err # "EOF") \/ Len(res.p) = 0
          THEN /\ cl = "ok"
               /\ copyErr' = [copyErr EXCEPT ![r] = res.err]
               /\ Return(r)
               /\ UNCHANGED body
          ELSE IF cl = "fail"
          THEN /\ copyErr' = [copyErr EXCEPT ![r] = "client"]
               /\ Return(r)
               /\ UNCHANGED body
          ELSE /\ body' = [body EXCEPT ![r] = @ \o res.p]
               /\ UNCHANGED <<copyErr, pc, pool, worker>>
  /\ UNCHANGED <<Config, workerIndex, loaded, req, file, win, status, hdrs, logs,
                 remaining>>

\* io.Copy's buffer is 32 KiB, the value of stream.go's bufferSize.
copyBufSize == bufferSize

\* part_001 272-278: gzip for what is neither video, audio nor image.  The
\* compressed form of byte b is modelled as GzByte(b), the end of the stream
\* written by the deferred gz.Close as GzEnd.
compressed(mime) == mime \notin {"video/mp4", "audio/mpeg", "image/jpeg"}
GzByte(b) == 0 - (b + 10)
GzEnd == <<0 - 2>>
encodeFor(mime, p) == IF compressed(mime) THEN [i \in 1..Len(p) |-> GzByte(p[i])] ELSE p

\* part_001 281: one iteration of io.CopyN(w, reader, contentLength).
\* remaining is the N of the io.LimitedReader.
PoolCopyIter(r, upstream) ==
  /\ variant = "pooled"
  /\ pc[r] = "poolcopy"
  /\ IF remaining[r] = 0
     THEN /\ copyErr' = [copyErr EXCEPT ![r] = "nil"]
          /\ pc' = [pc EXCEPT ![r] = "copyend"]
          /\ UNCHANGED <<rd, fetches, body, remaining>>
     ELSE \E got \in ReadReplies(rd[r], upstream), cl \in {"ok", "fail"} :
            LET res == bufReaderRead(rd[r], Min(copyBufSize, remaining[r]), got) IN
            /\ rd' = [rd EXCEPT ![r] = res.R]
            /\ fetches' = [fetches EXCEPT ![r] = @ \o res.fetch]
            /\ IF Len(res.p) > 0 /\ cl = "fail"
               THEN /\ copyErr' = [copyErr EXCEPT ![r] = "client"]
                    /\ pc' = [pc EXCEPT ![r] = "copyend"]
                    /\ UNCHANGED <<body, remaining>>
               ELSE /\ cl = "ok"
                    /\ body' = [body EXCEPT ![r] = @ \o encodeFor(file[r].mime, res.p)]
                    /\ remaining' = [remaining EXCEPT ![r] = @ - Len(res.p)]
                    /\ IF res.err # "nil"
                       THEN /\ copyErr' = [copyErr EXCEPT ![r] = res.err]
                            /\ pc' = [pc EXCEPT ![r] = "copyend"]
                       ELSE UNCHANGED <<copyErr, pc>>
  /\ UNCHANGED <<Config, workerIndex, loaded, pool, req, file, worker, win, status,
                 hdrs, logs>>

\* part_001 281-284: log.Error on an error of io.CopyN, then the deferred
\* gz.Close and the deferred release.
PoolCopyEnd(r) ==
  /\ variant = "pooled"
  /\ pc[r] = "copyend"
  /\ logs' = [logs EXCEPT ![r] = @ \cup (IF copyErr[r] # "nil" THEN {"error"} ELSE {})]
  /\ body' = [body EXCEPT ![r] = IF compressed(file[r].mime) THEN @ \o GzEnd ELSE @]
  /\ Return(r)
  /\ UNCHANGED <<Config, workerIndex, loaded, req, file, win, status, hdrs,
                 fetches, rd, remaining, copyErr>>

\* The inputs of the requests that run side by side: one descriptor of each
\* kind, one Range header of each kind, an upstream that answers or fails.
PoolFiles ==
  {[id |-> FileId, name |-> "a", size |-> 1, payload |-> 1, mime |-> m] : m \in Mimes}
  \cup {[id |-> FileId, name |-> "a", size |-> 0, payload |-> 1, mime |-> "image/jpeg"]}
PoolHeaders ==
  {[kind |-> "none", rs |-> <<>>], [kind |-> "bad", rs |-> <<>>],
   [kind |-> "ranges", rs |-> <<[s |-> 0, e |-> 0]>>],
   [kind |-> "ranges", rs |-> <<[s |-> 0, e |-> 0], [s |-> 0, e |-> Absent]>>]}

InitPool == variant = "pooled" /\ capacity \in 1..MaxPoolCap /\ InitCommon

Step(r) ==
  \/ ParseParams(r)
  \/ PoolAcquire(r)
  \/ LookupFile(r, PoolFiles)
  \/ CheckHashStep(r)
  \/ PhotoFetch(r)
  \/ Negotiate(r, PoolHeaders)
  \/ PoolVideoIter(r, "plain")
  \/ PoolCopyIter(r, "plain")
  \/ PoolCopyEnd(r)

NextPool == LoadHome \/ \E r \in Req : Step(r)

SpecPool == InitPool /\ [][NextPool]_vars

\* ---------------------------------------------------------------------
\* One request through any of the three drafts, the upstream free to return
\* fewer or more bytes than asked for.
\* ---------------------------------------------------------------------
InitOne ==
  \/ Init
  \/ /\ variant = "pooled"
     /\ capacity = 1
     /\ numWorkers = 1
     /\ InitCommon

NextOne ==
  \/ Next
  \/ variant = "pooled" /\ LookupFile(1, Files({"text/plain"}))
  \/ PoolAcquire(1)
  \/ PoolVideoIter(1, "any")
  \/ PoolCopyIter(1, "any")
  \/ PoolCopyEnd(1)

SpecOne == InitOne /\ [][NextOne]_vars

\* Every request keeps running (the scheduler is fair to each goroutine and
\* every call returns).
SpecPoolFair == SpecPool /\ WF_vars(LoadHome) /\ \A r \in Req : WF_vars(Step(r))

\* ---------------------------------------------------------------------
\* Properties of the drafts that serve one request at a time (Spec)
\* ---------------------------------------------------------------------
Negotiated(r) == win[r] # NoWin
Done(r) == pc[r] = "done"
SingleValid(r) ==
  /\ req[r].range.kind = "ranges"
  /\ Len(req[r].range.rs) = 1
  /\ LET sp == req[r].range.rs[1] IN 0 <= sp.s /\ sp.s <= sp.e /\ sp.e < file[r].size
FetchUnit == IF variant = "aligned" THEN chunkSize ELSE preloadSize
ChunkFetches(r) == SelectSeq(fetches[r], LAMBDA f : f.kind = "chunk")
AllFetchesExact(r) == \A i \in 1..Len(fetches[r]) : fetches[r][i].got = fetches[r][i].lim
FileBytesOf(sq) == SelectSeq(sq, LAMBDA b : b # ErrText)

\* C1: for a valid single range bytes=S-E (0 <= S <= E < size) the served
\* window [s,e] has s <= S, e <= E and at most one fetch unit of bytes
\* (chunkSize, or preloadSize in the preload draft), and Content-Range and
\* Content-Length carry exactly that window.
C1_WindowWithinUnit ==
  \A r \in Req :
    (Negotiated(r) /\ SingleValid(r)) =>
      LET sp == req[r].range.rs[1] IN
      /\ win[r].start <= sp.s
      /\ win[r].end <= sp.e
      /\ win[r].end - win[r].start + 1 <= FetchUnit
      /\ hdrs[r]["Content-Range"] = <<win[r].start, win[r].end, file[r].size>>
      /\ hdrs[r]["Content-Length"] = <<win[r].end - win[r].start + 1>>

\* C2: in the aligned draft, a GET without a Range header (and without a
\* matching If-None-Match) for a file of size > 0, every upstream fetch
\* returning exactly the bytes asked for and the client taking every write,
\* ends with status 200, Content-Length = size and the body equal to the
\* bytes 0 .. size-1 of the file, in order.
C2_FullBody ==
  \A r \in Req :
    ( /\ variant = "aligned"
      /\ Done(r)
      /\ req[r].method = "GET"
      /\ req[r].range.kind = "none"
      /\ file[r].size > 0
      /\ AllFetchesExact(r)
      /\ copyErr[r] # "client" ) =>
      /\ status[r] = 200
      /\ hdrs[r]["Content-Length"] = <<file[r].size>>
      /\ body[r] = [i \in 1..file[r].size |-> i - 1]

C2_Witness ==
  \E r \in Req :
    /\ variant = "aligned" /\ Done(r) /\ req[r].method = "GET"
    /\ req[r].range.kind = "none" /\ file[r].size > chunkSize
    /\ AllFetchesExact(r) /\ copyErr[r] # "client"
    /\ Len(fetches[r]) >= 2
    /\ Len(body[r]) = file[r].size

\* C3: in the aligned draft the bytes handed to the client's writer through
\* contentLengthWriter never exceed the declared Content-Length
\* (end - start + 1), whatever the reader supplies.
C3_NeverMoreThanDeclared ==
  \A r \in Req :
    (variant = "aligned" /\ Negotiated(r)) =>
      /\ Len(body[r]) <= win[r].end - win[r].start + 1
      /\ hdrs[r]["Content-Length"] = <<win[r].end - win[r].start + 1>>

\* the reader held more than the window and the guard cut it off
C3_Witness ==
  \E r \in Req :
    /\ variant = "aligned" /\ Done(r)
    /\ \E i \in 1..Len(fetches[r]) : fetches[r][i].got > fetches[r][i].lim
    /\ Len(body[r]) = win[r].end - win[r].start + 1
    /\ copyErr[r] = "ErrShortWrite"

\* C7: in the aligned draft, a request whose If-None-Match equals the ETag of
\* (file id, file size) is answered 304 with no body and no UploadGetFile
\* call, at every point from the check on.
C7_NotModified ==
  \A r \in Req :
    (variant = "aligned" /\ file[r] # NoFile /\ req[r].inm = <<file[r].id, file[r].size>>) =>
      /\ status[r] = 304
      /\ body[r] = <<>>
      /\ fetches[r] = <<>>
      /\ Done(r)

C7_Witness ==
  \E r \in Req :
    /\ variant = "aligned" /\ Done(r) /\ status[r] = 304
    /\ req[r].inm = <<file[r].id, file[r].size>> /\ file[r].size = 0

\* C9: a GET for a descriptor of size 0 whose single fetch succeeds gets
\* status 200, no Accept-Ranges and no Content-Range header, exactly one
\* fetch, at offset 0, and a body equal to the whole payload, whatever the
\* payload's length.
C9_PhotoWholePayload ==
  \A r \in Req :
    ( /\ Done(r)
      /\ file[r].size = 0
      /\ req[r].method = "GET"
      /\ Len(fetches[r]) >= 1
      /\ fetches[r][1].got >= 0 ) =>
      /\ status[r] = 200
      /\ hdrs[r]["Accept-Ranges"] = NoHdr
      /\ hdrs[r]["Content-Range"] = NoHdr
      /\ Len(fetches[r]) = 1
      /\ fetches[r][1].off = 0
      /\ body[r] = [i \in 1..file[r].payload |-> i - 1]

\* C10: a request whose Range header holds more than one range is rejected
\* with 400 or 416: no Content-Range header, no chunk fetch.
C10_MultipartRejected ==
  \A r \in Req :
    (req[r].range.kind = "ranges" /\ Len(req[r].range.rs) > 1) =>
      /\ status[r] \in {400, 416}
      /\ hdrs[r]["Content-Range"] = NoHdr
      /\ ChunkFetches(r) = <<>>


\* ---------------------------------------------------------------------
\* Properties of the pooled draft (SpecPool, SpecPoolFair)
\* ---------------------------------------------------------------------
PastAcquire == {"lookup", "hash", "photo", "range", "video", "poolcopy", "copyend"}
Holders == {r \in Req : pc[r] \in PastAcquire}
Waiting(r) == pc[r] = "worker"

\* C4: no two requests in flight hold the same worker, and the workers in
\* clientPool are pairwise distinct, whatever the number of bots
\* GetNextWorker cycles through.
C4_NoSharedHandle ==
  /\ \A r1 \in Req, r2 \in Req :
       (r1 # r2 /\ worker[r1] # 0 /\ worker[r2] # 0) => worker[r1] # worker[r2]
  /\ \A i \in 1..Len(pool), j \in 1..Len(pool) : i # j => pool[i] # pool[j]

\* C5: with pool capacity K at most K requests are past the acquire step,
\* the workers held and the workers in the pool add up to K, and a request
\* waiting at the acquire step has issued no upstream call; when K requests
\* hold workers the pool is empty, so a further request cannot acquire.
C5_AtMostKPastAcquire ==
  loaded =>
    /\ Cardinality(Holders) <= capacity
    /\ Cardinality(Holders) + Len(pool) = capacity
    /\ \A r \in Req : r \in Holders <=> worker[r] # 0
    /\ \A r \in Req : Waiting(r) => fetches[r] = <<>>
    /\ Cardinality(Holders) = capacity => pool = <<>>

\* K requests hold the K workers and one more waits
C5_Witness ==
  /\ Cardinality(Holders) = capacity
  /\ \E r \in Req : Waiting(r)
  /\ \E r \in Holders : fetches[r] # <<>>

\* C6: a request that acquired a worker returns it on every exit path, so
\* whenever no request is in flight the pool holds exactly K workers; and,
\* every request in flight finishing eventually, a request waiting at the
\* acquire step eventually proceeds.
C6_ReleasedOnEveryExit ==
  /\ []((loaded /\ Holders = {}) => Len(pool) = capacity)
  /\ [](\A r \in Req : Done(r) => worker[r] = 0)
  /\ \A r \in Req : Waiting(r) ~> ~Waiting(r)

\* two requests have left, one on an upstream fetch error and one on a
\* rejected multipart range, and the pool is full again
C6_Witness ==
  /\ \A r \in Req : Done(r)
  /\ \E r1 \in Req, r2 \in Req :
       /\ copyErr[r1] = "upstream"
       /\ status[r2] = 416
  /\ Len(pool) = capacity


\* ---------------------------------------------------------------------
\* The window arithmetic at the source's own constants (SpecExample): a
\* HEAD request that has passed the hash check, for files and ranges around
\* the chunk and preload sizes.
\* ---------------------------------------------------------------------
ExSizes == {1000000, 1048576, chunkSizeBytes, chunkSizeBytes + 1, 2 * chunkSizeBytes + 5}
ExNums == {0, 1, 500000, 999999, 1048576, preloadSizeBytes, chunkSizeBytes,
           chunkSizeBytes + 1, Absent}
\* stream.go's chunkSize, and the 1 MiB of part_000 and of the design's example
ExChunks == {chunkSizeBytes, 1024 * 1024}

InitExample ==
  /\ variant \in {"aligned", "preload"}
  /\ numWorkers = 1
  /\ capacity = 0
  /\ workerIndex = 0
  /\ loaded = TRUE
  /\ pool = <<>>
  /\ pc = [r \in Req |-> IF r = 1 THEN "range" ELSE "start"]
  /\ \E n \in ExSizes :
       LET f == [id |-> FileId, name |-> "a.mp4", size |-> n, payload |-> n, mime |-> "video/mp4"] IN
       /\ file = [r \in Req |-> IF r = 1 THEN f ELSE NoFile]
       /\ req = [r \in Req |-> IF r = 1 THEN [NoReq EXCEPT !.hash = "set", !.token = PackFile(f)]
                               ELSE NoReq]
       /\ hdrs = [r \in Req |-> IF r = 1 /\ variant = "aligned"
                                THEN [NoHeaders EXCEPT !["ETag"] = eTagOf(f)] ELSE NoHeaders]
  /\ worker = [r \in Req |-> IF r = 1 THEN 1 ELSE 0]
  /\ win = [r \in Req |-> NoWin]
  /\ status = [r \in Req |-> 200]
  /\ body = [r \in Req |-> <<>>]
  /\ fetches = [r \in Req |-> <<>>]
  /\ rd = [r \in Req |-> NoReader]
  /\ remaining = [r \in Req |-> 0]
  /\ copyErr = [r \in Req |-> "?"]
  /\ logs = [r \in Req |-> {}]
  /\ client = NoClient

NegotiateExample(r) ==
  /\ pc[r] = "range"
  /\ \E rs \in ExNums, re \in ExNums, cs \in ExChunks :
       LET h   == [kind |-> "ranges", rs |-> <<[s |-> rs, e |-> re]>>]
           res == negotiated(file[r], h, hdrs[r], cs, preloadSizeBytes)
       IN
       /\ req' = [req EXCEPT ![r].range = h,
                             ![r].method = IF res.reject # 0 THEN @ ELSE "HEAD"]
       /\ hdrs' = [hdrs EXCEPT ![r] = res.hdrs]
       /\ IF res.reject # 0
          THEN HttpError(r, res.reject) /\ UNCHANGED win
          ELSE /\ win' = [win EXCEPT ![r] = res.w]
               /\ status' = [status EXCEPT ![r] = res.status]
               /\ UNCHANGED body
  /\ Return(r)
  /\ UNCHANGED <<Config, workerIndex, loaded, file, fetches, rd, remaining, copyErr, logs>>

NextExample == NegotiateExample(1)

SpecExample == InitExample /\ [][NextExample]_vars

\* C8: for the file of 1,000,000 bytes and a chunk size larger than the
\* file, Range: bytes=500000-999999 is served as the window
\* [500000, 999999]: status 206, Content-Range bytes 500000-999999/1000000,
\* Content-Length 500000.
C8_ExampleServedUnchanged ==
  \A r \in Req :
    ( /\ Done(r)
      /\ file[r].size = 1000000
      /\ req[r].range = [kind |-> "ranges", rs |-> <<[s |-> 500000, e |-> 999999]>>] ) =>
      /\ win[r] = [start |-> 500000, end |-> 999999, len |-> 500000]
      /\ status[r] = 206
      /\ hdrs[r]["Content-Range"] = <<500000, 999999, 1000000>>
      /\ hdrs[r]["Content-Length"] = <<500000>>

\* ---------------------------------------------------------------------
\* Properties of one request through any of the three drafts (SpecOne)
\* ---------------------------------------------------------------------

\* The request came without a hash, or with one that is not the descriptor's.
HashRefused(r) ==
  \/ req[r].hash = ""
  \/ req[r].token # <<>> /\ req[r].token # PackFile(file[r])

PastHashCheck(r) ==
  \/ pc[r] \in {"etag", "photo", "range", "copy", "copyn", "video", "poolcopy", "copyend"}
  \/ Negotiated(r)
  \/ fetches[r] # <<>>
  \/ hdrs[r] # NoHeaders
  \/ status[r] = 304

\* C11: a request whose hash is absent, empty or not the one of the
\* descriptor ends with a 4xx status; for it no ETag is set or compared, no
\* upstream fetch is issued and no file byte is written.  Negotiation and
\* streaming are reached only by a request whose hash was accepted.
C11_HashGate ==
  \A r \in Req :
    /\ HashRefused(r) =>
         /\ Done(r)
         /\ status[r] \in 400..499
         /\ hdrs[r] = NoHeaders
         /\ win[r] = NoWin
         /\ fetches[r] = <<>>
         /\ FileBytesOf(body[r]) = <<>>
    /\ PastHashCheck(r) => req[r].hash = "set" /\ CheckHash(req[r].token, PackFile(file[r]))

C11_Witness ==
  \E r \in Req :
    /\ Done(r)
    /\ req[r].hash = "set"
    /\ req[r].token # <<>>
    /\ req[r].token # PackFile(file[r])
    /\ status[r] = 400
    /\ file[r].size > 0

\* C12: every fetch the bufferedTelegramReader of a window
\* [start, end] with chunk size c issues has an offset o and a limit n with
\* start <= o, n >= 1, o + n - 1 <= end and n = min(c, end + 1 - o); the
\* offsets of successive fetches strictly increase, and none is issued once
\* the cursor is at end + 1.
C12_FetchBounds ==
  \A r \in Req :
    (variant = "pooled" /\ Negotiated(r)) =>
      LET F == ChunkFetches(r)
          c == poolChunk(file[r].mime)
      IN  /\ \A i \in 1..Len(F) :
               /\ win[r].start <= F[i].off
               /\ F[i].lim >= 1
               /\ F[i].off + F[i].lim - 1 <= win[r].end
               /\ F[i].lim = Min(c, win[r].end + 1 - F[i].off)
               /\ i > 1 => F[i - 1].off < F[i].off
          /\ rd[r] # NoReader => rd[r].cur <= win[r].end + 1

C12_Witness ==
  \E r \in Req :
    /\ variant = "pooled"
    /\ Done(r)
    /\ Len(ChunkFetches(r)) >= 2
    /\ ChunkFetches(r)[Len(ChunkFetches(r))].lim < poolChunk(file[r].mime)
    /\ rd[r].cur = win[r].end + 1

\* The file bytes the client has been sent: the body, decompressed where
\* the draft compressed it.
Delivered(r) ==
  IF compressed(file[r].mime)
  THEN LET data == SelectSeq(body[r], LAMBDA b : b # GzEnd[1]) IN
       [i \in 1..Len(data) |-> 0 - data[i] - 10]
  ELSE body[r]

\* The number of bytes the fetches of F returned.
RECURSIVE BytesReturned(_)
BytesReturned(F) ==
  IF F = <<>> THEN 0
  ELSE (IF Head(F).got > 0 THEN Head(F).got ELSE 0) + BytesReturned(Tail(F))

\* Every reply so far is a failure or returned at least one byte and no more
\* than asked for.
NoOversizedReply(r) ==
  \A i \in 1..Len(fetches[r]) : fetches[r][i].got <= fetches[r][i].lim /\ fetches[r][i].got # 0

\* C13: whatever the upstream replies (replies shorter than asked for
\* included), the cursor of the bufferedTelegramReader stands at the window's
\* start plus the number of bytes returned so far, and the bytes delivered
\* are a contiguous prefix of the window: the k-th is the file byte at
\* offset start + k - 1.
C13_ContiguousPrefix ==
  \A r \in Req :
    (variant = "pooled" /\ Negotiated(r) /\ NoOversizedReply(r)) =>
      /\ rd[r] # NoReader => rd[r].cur = win[r].start + BytesReturned(ChunkFetches(r))
      /\ Delivered(r) = FileBytes(win[r].start, Len(Delivered(r)))

\* ---------------------------------------------------------------------
\* The copy of stream.go once the declared length is reached (Spec)
\* ---------------------------------------------------------------------

\* The copy was stopped by contentLengthWriter: not by the end of the
\* reader, a failed fetch or a failed client write.
StoppedByGuard(r) ==
  /\ variant = "aligned"
  /\ Done(r)
  /\ Negotiated(r)
  /\ copyErr[r] \notin {"?", "nil", "upstream", "client"}

\* C14: when contentLengthWriter stops the copy, because its budget is
\* used up or because it cut a write short, io.CopyBuffer returns
\* errContentLengthExceeded and the handler does not log an error.
C14_GuardStopIsClean ==
  \A r \in Req :
    StoppedByGuard(r) =>
      /\ copyErr[r] = "errContentLengthExceeded"
      /\ "error" \notin logs[r]

\* ---------------------------------------------------------------------
\* The reader of the pooled draft and a failing upstream (SpecOne)
\* ---------------------------------------------------------------------

\* The last fetch of the request returned no byte although the window was
\* not exhausted (a fetch is only made before the window's end).
ZeroByteFetch(r) ==
  /\ ChunkFetches(r) # <<>>
  /\ ChunkFetches(r)[Len(ChunkFetches(r))].got = 0

\* C15: in the pooled draft a fetch that returns zero bytes before the end
\* of the window ends the request in error: the reader reports an error that
\* is not the end of the sequence, so that neither the copy nor the video
\* loop ends as it does when the stream is complete.
C15_ZeroBytesIsError ==
  \A r \in Req :
    (variant = "pooled" /\ Done(r) /\ ZeroByteFetch(r)) =>
      copyErr[r] \notin {"nil", "EOF"}

\* The last upstream fetch of the request failed: the call returned an error
\* or a reply of an unexpected type.
FetchFailed(r) ==
  /\ fetches[r] # <<>>
  /\ fetches[r][Len(fetches[r])].got < 0

\* C16: once an upstream fetch of a request has failed, no further
\* fetch is issued for it and no further byte is written to its body.
C16_NothingAfterFailure ==
  [][\A r \in Req :
       FetchFailed(r) => fetches'[r] = fetches[r] /\ body'[r] = body[r]]_vars

\* C17: every 200 or 206 response for a descriptor of size > 0 is built from
\* a window with 0 <= start <= end <= size - 1, its Content-Length is
\* end - start + 1 and, for a 206, its Content-Range is that window; for
\* every range the parser returns, in every draft.
C17_WindowWithinFile ==
  \A r \in Req :
    ((Negotiated(r) \/ Done(r)) /\ status[r] \in {200, 206} /\ file[r].size > 0) =>
      /\ Negotiated(r)
      /\ 0 <= win[r].start
      /\ win[r].start <= win[r].end
      /\ win[r].end <= file[r].size - 1
      /\ hdrs[r]["Content-Length"] = <<win[r].end - win[r].start + 1>>
      /\ status[r] = 206 =>
           hdrs[r]["Content-Range"] = <<win[r].start, win[r].end, file[r].size>>

\* A 206 of the aligned draft whose start was floored and whose end was cut,
\* and one of the pooled draft for a range that ends beyond the file.
C17_Witness ==
  \E r \in Req :
    /\ Done(r)
    /\ status[r] = 206
    /\ req[r].range.kind = "ranges"
    /\ LET sp == req[r].range.rs[1] IN
       \/ /\ variant = "aligned"
          /\ sp.s # Absent /\ win[r].start < sp.s
          /\ sp.e # Absent /\ win[r].end < sp.e
       \/ /\ variant = "pooled"
          /\ sp.e # Absent /\ sp.e > file[r].size - 1
          /\ win[r].end = file[r].size - 1

\* What the draft derives from the descriptor and the Range header of the
\* request, whatever its method: the window, the status and the headers.
GetResponse(r) == negotiated(file[r], req[r].range, hdrs[r], chunkSize, preloadSize)

FirstRange(r) == rangeParse(file[r].size, req[r].range).ranges[1]

\* C19: in the aligned draft the served window [s, e] of a range request
\* contains the first byte asked for, S: s <= S <= e.  Flooring the start
\* and then cutting the end never gives a window that ends before S.
C19_FirstByteServed ==
  \A r \in Req :
    (variant = "aligned" /\ Negotiated(r) /\ req[r].range.kind = "ranges") =>
      /\ win[r].start <= FirstRange(r).Start
      /\ FirstRange(r).Start <= win[r].end

\* A valid bytes=S-E whose start was floored and whose end was cut to S.
C19_Witness ==
  \E r \in Req :
    /\ variant = "aligned"
    /\ Done(r)
    /\ SingleValid(r)
    /\ win[r].start < req[r].range.rs[1].s
    /\ win[r].end < req[r].range.rs[1].e
    /\ win[r].end = req[r].range.rs[1].s

\* ---------------------------------------------------------------------
\* A player that follows one file: it asks for the open-ended range from
\* S0 and, after each 206 that ends before the last byte, for the open-ended
\* range from the byte after the served window (stream.go and part_000).
\* Its requests are taken from the point where the handler reads the Range
\* header, the hash check passed.
\* ---------------------------------------------------------------------
PlayerSizes == 1..(MaxSize + 2)

\* Range: bytes=<next>-
playerHeader == [kind |-> "ranges", rs |-> <<[s |-> client.next, e |-> Absent]>>]

passedRequest(f) == [NoReq EXCEPT !.hash = "set", !.token = PackFile(f)]
passedHeaders(f) ==
  IF variant = "aligned" THEN [NoHeaders EXCEPT !["ETag"] = eTagOf(f)] ELSE NoHeaders

InitPlayer ==
  /\ variant \in {"aligned", "preload"}
  /\ numWorkers = 1
  /\ capacity = 0
  /\ workerIndex = 0
  /\ loaded = TRUE
  /\ pool = <<>>
  /\ pc = [r \in Req |-> IF r = 1 THEN "range" ELSE "start"]
  /\ \E n \in PlayerSizes, s0 \in 0..(MaxSize + 1) :
       LET f == [id |-> FileId, name |-> "a.mp4", size |-> n, payload |-> n, mime |-> "video/mp4"] IN
       /\ s0 < n
       /\ file = [r \in Req |-> IF r = 1 THEN f ELSE NoFile]
       /\ req = [r \in Req |-> IF r = 1 THEN passedRequest(f) ELSE NoReq]
       /\ hdrs = [r \in Req |-> IF r = 1 THEN passedHeaders(f) ELSE NoHeaders]
       /\ client = [NoClient EXCEPT !.s0 = s0, !.next = s0]
  /\ worker = [r \in Req |-> IF r = 1 THEN 1 ELSE 0]
  /\ win = [r \in Req |-> NoWin]
  /\ status = [r \in Req |-> 200]
  /\ body = [r \in Req |-> <<>>]
  /\ fetches = [r \in Req |-> <<>>]
  /\ rd = [r \in Req |-> NoReader]
  /\ remaining = [r \in Req |-> 0]
  /\ copyErr = [r \in Req |-> "?"]
  /\ logs = [r \in Req |-> {}]

\* The player has its response: a 206 whose window ends before the last byte
\* makes it ask again, from the byte after the window.
PlayerFollow ==
  /\ client # NoClient
  /\ pc[1] = "done"
  /\ status[1] = 206
  /\ win[1].end < file[1].size - 1
  /\ client' = [client EXCEPT !.next = win[1].end + 1,
                              !.last = win[1].end,
                              !.covered = @ \cup (win[1].start .. win[1].end),
                              !.n = @ + 1]
  /\ pc' = [pc EXCEPT ![1] = "range"]
  /\ req' = [req EXCEPT ![1] = passedRequest(file[1])]
  /\ hdrs' = [hdrs EXCEPT ![1] = passedHeaders(file[1])]
  /\ worker' = [worker EXCEPT ![1] = 1]
  /\ win' = [win EXCEPT ![1] = NoWin]
  /\ status' = [status EXCEPT ![1] = 200]
  /\ body' = [body EXCEPT ![1] = <<>>]
  /\ fetches' = [fetches EXCEPT ![1] = <<>>]
  /\ rd' = [rd EXCEPT ![1] = NoReader]
  /\ remaining' = [remaining EXCEPT ![1] = 0]
  /\ copyErr' = [copyErr EXCEPT ![1] = "?"]
  /\ logs' = [logs EXCEPT ![1] = {}]
  /\ UNCHANGED <<variant, numWorkers, capacity, workerIndex, loaded, pool, file>>

NextPlayer ==
  \/ Negotiate(1, {playerHeader})
  \/ CopyIter(1)
  \/ CopyEnd(1)
  \/ CopyNIter(1)
  \/ CopyNEnd(1)
  \/ PlayerFollow

SpecPlayer == InitPlayer /\ [][NextPlayer]_vars

\* Every request is answered and the player goes on asking.
SpecPlayerFair == SpecPlayer /\ WF_vars(NextPlayer)

PlayerServed == pc[1] = "done"
PlayerAtEnd == PlayerServed /\ status[1] = 206 /\ win[1].end = file[1].size - 1

\* Each response of the player is a 206 whose window ends after the window
\* before it, and the windows served so far cover every offset from S0 to
\* the end of the last.
PlayerProgress ==
  PlayerServed =>
    /\ status[1] = 206
    /\ win[1].end > client.last
    /\ win[1].end <= file[1].size - 1
    /\ \A i \in client.s0 .. win[1].end :
         i \in client.covered \cup (win[1].start .. win[1].end)

\* C20: the player that starts at S0 and asks for the open-ended range from
\* e + 1 after each 206 with window [s, e] comes to a response with
\* e = size - 1; on the way each e is greater than the one before and the
\* windows cover every byte of [S0, size - 1]; with the aligned and with
\* the preload policy.
C20_PlayerReachesEnd == [](PlayerProgress) /\ <>[](PlayerAtEnd)

C20_Witness ==
  /\ PlayerAtEnd
  /\ client.n >= 2
  /\ client.s0 > 0
  /\ \A i \in client.s0 .. (file[1].size - 1) :
       i \in client.covered \cup (win[1].start .. win[1].end)

====
